---- MODULE Spec2Model ----
(***************************************************************************)
(* Model of src/main.ts: an oak application that logs a browser in with    *)
(* the OAuth2 authorization-code flow, keeps the credential bundle in the  *)
(* "tokens" cookie, and keeps one status record in /data/status.json.      *)
(*                                                                         *)
(* One browser (cookie jar + server session) issues requests; up to NReq   *)
(* requests are in flight at once.  Each handler is cut at the awaits that *)
(* touch shared state or the provider: the status file, the provider's     *)
(* profile/token endpoints.  Provider answers are inputs.                  *)
(***************************************************************************)
EXTENDS Integers, Sequences, FiniteSets, TLC

\* ---------------------------------------------------------------- bounds
NReq == 2          \* request slots that may be in flight together
MaxClock == 2      \* distinct values new Date() can take in a run
MaxTokens == 2     \* credential bundles the provider has issued by the end of a run
MaxRequests == 3   \* requests the browser sends in a run

Req == 1..NReq

\* ------------------------------------------------------- program constants
\* new Date("2026-01-29T15:32:41.000Z").toISOString(); clock values are > 0
FixedStamp == 0

\* ctx.cookies.get("tokens"): undefined, an unparseable string, or the JSON
\* of the bundle number g >= 1 (accessToken a_g, refreshToken r_g)
NoCookie == 0
Malformed == -1
\* no Set-Cookie for "tokens" on the response
Keep == -2

\* ctx.response.status before anything assigns it
Unset == 0

Undefined == "undefined"

VARIABLES
    ctx,      \* per request slot: the oak context and the handler's locals
    jar,      \* the browser's "tokens" cookie
    session,  \* the server session's flashed codeVerifier
    file,     \* /data/status.json: <<>> when absent, else <<text>>
    clock,    \* what new Date() returns now
    issued,   \* bundles issued by the provider so far
    served,   \* requests that have arrived so far
    consumed, \* history: a callback has taken the flashed verifier, no login since
    reads,    \* history: the last two records status.read() returned since
              \* the last write of the file
    loggedOut \* history: "no", or since the last logout: "quiet" when no other
              \* request was in flight at that logout, else "out"; then
              \* "quietLogin" / "outLogin" once a login has arrived, until a
              \* callback sets the cookie

vars ==
    <<ctx, jar, session, file, clock, issued, served, consumed, reads,
      loggedOut>>

\* ------------------------------------------------------------ JS objects
\* An object is the sequence of its <<key, value>> members, in insertion order.
ObjectKeys(obj) == {obj[i][1] : i \in DOMAIN obj}

HasKey_always(obj, k) == TRUE

HasKey(obj, k) == k \in ObjectKeys(obj)

Spread_dropsOthers(obj, k, v) == <<<<k, v>>>>

\* { ...obj, [k]: v }
Spread(obj, k, v) ==
    IF k \in ObjectKeys(obj)
    THEN [i \in DOMAIN obj |-> IF obj[i][1] = k THEN <<k, v>> ELSE obj[i]]
    ELSE Append(obj, <<k, v>>)

\* JSON.stringify(obj) / JSON.stringify(obj, null, 2): the members in order,
\* laid out with the given indent
JSONstringify(obj, indent) == [indent |-> indent, members |-> obj]

\* JSON.parse: the layout is dropped
JSONparse(text) == text.members

\* ------------------------------------------------------------- responses
NoBody == [kind |-> "none", rec |-> <<>>]
Message(m) == [kind |-> m, rec |-> <<>>]
Json(rec) == [kind |-> "status", rec |-> rec]

\* the context of a request that has just arrived carrying `cookie`
NewCtx(cookie, route, method, key) ==
    [pc |-> "start", route |-> route, method |-> method, key |-> key,
     cookie |-> cookie, setCookie |-> Keep,
     status |-> Unset, body |-> NoBody, location |-> "", thrown |-> FALSE,
     tokens |-> NoCookie, newTokens |-> NoCookie,
     name |-> "unset", innerName |-> "unset", me |-> "unset",
     codeVerifier |-> Undefined,
     currentStatus |-> <<>>, newStatus |-> <<>>, ret |-> "",
     created |-> FALSE, written |-> FALSE,
     nVerify |-> 0, nRefresh |-> 0, v1 |-> "-", v2 |-> "-", refreshed |-> "-",
     authStatus |-> Unset, authMessage |-> "",
     exchanged |-> FALSE, replay |-> FALSE,
     solo |-> TRUE, before |-> <<>>]

\* the browser sends the jar's cookie with every request
Fresh(route, method, key) == NewCtx(jar, route, method, key)

IdleCtx == [NewCtx(NoCookie, "", "", "") EXCEPT !.pc = "idle"]

\* oak: the status sent is the assigned one, else 200 with a body, 404 without
FinalStatus(c) ==
    IF c.status # Unset THEN c.status
    ELSE IF c.body.kind # "none" THEN 200 ELSE 404

\* the handler's locals are gone once it has returned or thrown
Ended(c) ==
    [c EXCEPT !.pc = "done", !.tokens = NoCookie, !.newTokens = NoCookie,
              !.name = "unset", !.innerName = "unset",
              !.currentStatus = <<>>, !.newStatus = <<>>, !.ret = ""]

\* ctx.response.redirect(url)
Redirect(c, url) ==
    Ended([c EXCEPT !.status = 302, !.location = url,
                    !.body = Message("redirect")])

\* the handler returns
Return(c) == Ended(c)

\* an exception leaves the handler: oak answers 500 and drops the headers
Throw(c) ==
    Ended([c EXCEPT !.thrown = TRUE, !.status = 500,
                    !.body = Message("error"), !.location = "",
                    !.setCookie = Keep])

Free(r) == ctx[r].pc \in {"idle", "done"}

\* history: a request is solo while no other request is in flight with it
Overlap(r, x) ==
    IF Free(r) /\ ~Free(x) THEN [ctx[x] EXCEPT !.solo = FALSE] ELSE ctx[x]

Solo(r, c) ==
    IF Free(r) THEN [c EXCEPT !.solo = \A x \in Req \ {r} : Free(x)] ELSE c

\* history: where the browser stands between a logout and the next
\* completed login and callback
LoggedOutAfter(r, c) ==
    IF Free(r) /\ c.route = "logout"
    THEN IF \A x \in Req \ {r} : Free(x) THEN "quiet" ELSE "out"
    ELSE IF Free(r) /\ c.route = "login"
    THEN IF loggedOut = "quiet" THEN "quietLogin"
         ELSE IF loggedOut = "out" THEN "outLogin" ELSE loggedOut
    ELSE IF /\ c.route = "callback" /\ c.pc = "done" /\ c.setCookie >= 1
            /\ loggedOut \in {"quietLogin", "outLogin"}
    THEN "no"
    ELSE loggedOut

\* the browser applies the response's Set-Cookie when the response arrives
Respond(r, c) ==
    /\ ctx' = [x \in Req |-> IF x = r THEN Solo(r, c) ELSE Overlap(r, x)]
    /\ jar' = IF c.pc = "done" /\ c.setCookie # Keep THEN c.setCookie ELSE jar
    /\ loggedOut' = LoggedOutAfter(r, c)

\* a request arrives on a free slot
Arrive(r) ==
    /\ Free(r)
    /\ served < MaxRequests
    /\ served' = served + 1

Init ==
    /\ ctx = [r \in Req |-> IdleCtx]
    /\ jar \in {NoCookie, Malformed, 1}
    /\ session = Undefined
    /\ file = <<>>
    /\ clock = 1
    /\ issued = 1
    /\ served = 0
    /\ consumed = FALSE
    /\ reads = <<>>
    /\ loggedOut = "no"

\* ------------------------------------------------------- identity (getName)
\* what the provider's profile endpoint can do to a fetch
ProviderAnswers == {"200", "401", "500", "network error"}

\* fetchRcApi, lines 117-128: the name on a 200, false on any other status;
\* a rejected fetch is not caught
FetchRcApi(answer) ==
    IF answer = "network error" THEN "throws"
    ELSE IF answer = "200" THEN "valid" ELSE "invalid"

VerifierOutcomes == {FetchRcApi(answer) : answer \in ProviderAnswers}

AfterGetName_postRedirects(c) ==
    IF c.route = "me"
    THEN IF c.me = "false" THEN Return(c)
         ELSE Return([c EXCEPT !.body = Message("me")])
    ELSE IF c.me = "false" THEN Redirect(c, "/api/login")
         ELSE [c EXCEPT !.pc = "read"]

AfterGetName_fallThrough(c) ==
    IF c.route = "me"
    THEN IF c.me = "false" THEN Return(c)
         ELSE Return([c EXCEPT !.body = Message("me")])
    ELSE IF c.me = "false" /\ c.method = "GET" THEN Redirect(c, "/api/login")
         ELSE [c EXCEPT !.pc = "read"]

\* what the route handler does with getName's result
\* (/api/me: lines 162-164; /api/status/:key: lines 177-187)
AfterGetName(c) ==
    IF c.route = "me"
    THEN IF c.me = "false" THEN Return(c)
         ELSE Return([c EXCEPT !.body = Message("me")])
    ELSE IF c.me = "false"
         THEN IF c.method = "GET" THEN Redirect(c, "/api/login") ELSE Return(c)
         ELSE [c EXCEPT !.pc = "read"]

\* ctx.response.status = 401; body = {message}; return false
Fail401(c, message) ==
    AfterGetName([c EXCEPT !.status = 401, !.body = Message(message),
                           !.me = "false",
                           !.authStatus = 401, !.authMessage = message])

GetNameEntry_noShortCircuit(c) ==
    IF c.cookie = Malformed THEN Throw(c)
    ELSE [c EXCEPT !.pc = "verify1", !.tokens = c.cookie]

\* getName, lines 87-93: cookies.getTokens, then the no-credential exit
GetNameEntry(c) ==
    IF c.cookie = Malformed THEN Throw(c)
    ELSE IF c.cookie = NoCookie THEN Fail401(c, "not logged in")
    ELSE [c EXCEPT !.pc = "verify1", !.tokens = c.cookie]

\* getName, lines 94-95: the first fetchRcApi and the test of its result
FirstVerify(c, out) ==
    LET c1 == [c EXCEPT !.nVerify = @ + 1, !.v1 = out] IN
    IF out = "throws" THEN Throw(c1)
    ELSE IF out = "valid"
         THEN AfterGetName([c1 EXCEPT !.name = "me", !.me = "me"])
         ELSE [c1 EXCEPT !.name = "false", !.pc = "refresh"]

RefreshAndReread_clearsOnFailure(c, ok, bundle) ==
    LET c1 == [c EXCEPT !.nRefresh = @ + 1,
                        !.refreshed = IF ok THEN "ok" ELSE "failed",
                        !.setCookie = IF ok THEN bundle ELSE NoCookie]
        reread == c.cookie
    IN  IF reread = NoCookie
        THEN Fail401([c1 EXCEPT !.setCookie = NoCookie], "invalid session")
        ELSE [c1 EXCEPT !.newTokens = reread, !.pc = "verify2"]

\* getName, lines 96-104: cookies.refreshTokens (its catch returns false),
\* then cookies.getTokens again.  ctx.cookies.get reads the request's Cookie
\* header; setTokens wrote the response's Set-Cookie.
RefreshAndReread(c, ok, bundle) ==
    LET c1 == [c EXCEPT !.nRefresh = @ + 1,
                        !.refreshed = IF ok THEN "ok" ELSE "failed",
                        !.setCookie = IF ok THEN bundle ELSE @]
        reread == c.cookie
    IN  IF reread = NoCookie
        THEN Fail401([c1 EXCEPT !.setCookie = NoCookie], "invalid session")
        ELSE [c1 EXCEPT !.newTokens = reread, !.pc = "verify2"]

SecondVerify_keepsCookie(c, out) ==
    LET c1 == [c EXCEPT !.nVerify = @ + 1, !.v2 = out] IN
    IF out = "throws" THEN Throw(c1)
    ELSE IF out = "valid"
         THEN AfterGetName([c1 EXCEPT !.innerName = "me", !.me = c.name])
         ELSE Fail401([c1 EXCEPT !.innerName = "false"], "invalid session")

SecondVerify_retryAgain(c, out) ==
    LET c1 == [c EXCEPT !.nVerify = @ + 1, !.v2 = out] IN
    IF out = "throws" THEN Throw(c1)
    ELSE IF out = "valid"
         THEN AfterGetName([c1 EXCEPT !.innerName = "me", !.me = c.name])
         ELSE [c1 EXCEPT !.innerName = "false", !.pc = "refresh"]

\* getName, lines 106-114: the second fetchRcApi binds a new `name` inside
\* the block; `return name` after the block returns the outer one
SecondVerify(c, out) ==
    LET c1 == [c EXCEPT !.nVerify = @ + 1, !.v2 = out] IN
    IF out = "throws" THEN Throw(c1)
    ELSE IF out = "valid"
         THEN AfterGetName([c1 EXCEPT !.innerName = "me", !.me = c.name])
         ELSE Fail401([c1 EXCEPT !.innerName = "false", !.setCookie = NoCookie],
                      "invalid session")

\* GET /api/me arrives
GetMe(r) ==
    /\ Arrive(r)
    /\ Respond(r, GetNameEntry(Fresh("me", "GET", "")))
    /\ UNCHANGED <<consumed, session, file, clock, issued, reads>>

\* fetchRcApi answers the first call
Verify1(r) ==
    /\ ctx[r].pc = "verify1"
    /\ \E out \in VerifierOutcomes : Respond(r, FirstVerify(ctx[r], out))
    /\ UNCHANGED <<consumed, served, session, file, clock, issued, reads>>

\* the provider answers the refresh
Refresh(r) ==
    /\ ctx[r].pc = "refresh"
    /\ \/ /\ issued < MaxTokens
          /\ issued' = issued + 1
          /\ Respond(r, RefreshAndReread(ctx[r], TRUE, issued + 1))
       \/ /\ UNCHANGED issued
          /\ Respond(r, RefreshAndReread(ctx[r], FALSE, NoCookie))
    /\ UNCHANGED <<consumed, served, session, file, clock, reads>>

\* fetchRcApi answers the retry
Verify2(r) ==
    /\ ctx[r].pc = "verify2"
    /\ \E out \in VerifierOutcomes : Respond(r, SecondVerify(ctx[r], out))
    /\ UNCHANGED <<consumed, served, session, file, clock, issued, reads>>

\* ------------------------------------------------------------------ oauth
\* GET /api/login: flash the code verifier, redirect to the provider
Login(r) ==
    /\ Arrive(r)
    /\ session' = "codeVerifier"
    /\ consumed' = FALSE
    /\ Respond(r, Redirect(Fresh("login", "GET", ""), "authorize"))
    /\ UNCHANGED <<file, clock, issued, reads>>

LogoutResponse_keepsCookie(c) == Redirect(c, "/")

\* /api/logout, lines 141 and 143: deleteTokens, redirect to the root
LogoutResponse(c) == Redirect([c EXCEPT !.setCookie = NoCookie], "/")

\* GET /api/logout; line 142: deleteSession
Logout(r) ==
    /\ Arrive(r)
    /\ session' = Undefined
    /\ Respond(r, LogoutResponse(Fresh("logout", "GET", "")))
    /\ UNCHANGED <<consumed, file, clock, issued, reads>>

FlashAfterGet_kept(s) == s

\* session.get of a flashed key returns it and deletes it
FlashAfterGet(s) == Undefined

CallbackEntry_unchecked(c, codeVerifier) ==
    [c EXCEPT !.codeVerifier = codeVerifier, !.pc = "exchange"]

\* /api/callback, lines 147-150
CallbackEntry(c, codeVerifier) ==
    IF codeVerifier = Undefined THEN Throw(c)
    ELSE [c EXCEPT !.codeVerifier = codeVerifier, !.pc = "exchange"]

\* /api/callback, lines 152-156: getToken throws when the provider refuses
CallbackExchange(c, ok, bundle) ==
    LET c1 == [c EXCEPT !.exchanged = TRUE] IN
    IF ok THEN Redirect([c1 EXCEPT !.setCookie = bundle], "/")
    ELSE Throw(c1)

\* GET /api/callback arrives
Callback(r) ==
    /\ Arrive(r)
    /\ session' = FlashAfterGet(session)
    /\ consumed' = (consumed \/ session # Undefined)
    /\ Respond(r, CallbackEntry([Fresh("callback", "GET", "") EXCEPT
                                     !.replay = consumed], session))
    /\ UNCHANGED <<file, clock, issued, reads>>

\* the provider answers the code exchange
Exchange(r) ==
    /\ ctx[r].pc = "exchange"
    /\ \/ /\ issued < MaxTokens
          /\ issued' = issued + 1
          /\ Respond(r, CallbackExchange(ctx[r], TRUE, issued + 1))
       \/ /\ UNCHANGED issued
          /\ Respond(r, CallbackExchange(ctx[r], FALSE, NoCookie))
    /\ UNCHANGED <<consumed, served, session, file, clock, reads>>

\* ----------------------------------------------------------- status record
Keys == {"last_emptied", "last_cleaned", "bogus"}
Methods == {"GET", "POST", "PUT"}

\* status.read, lines 63-66: both members are new Date() of the same instant
InitialStatus(now) == <<<<"last_emptied", now>>, <<"last_cleaned", now>>>>

\* what the caller of status.read does with the record
\* (/api/status: line 168; /api/status/:key: lines 189-193 and line 204)
AfterRead(c, rec) ==
    IF c.ret = "update"
    THEN IF ~HasKey(rec, c.key)
         THEN Return([c EXCEPT !.status = 400, !.body = Message("invalid key")])
         ELSE [c EXCEPT !.currentStatus = rec, !.pc = "write"]
    ELSE Return([c EXCEPT !.body = Json(rec)])

CreatedRecord_restamped(c) == InitialStatus(clock)

\* status.read, line 69: the record built in the catch block is returned
CreatedRecord(c) == c.newStatus

\* status.read, lines 58-66: readTextFile; NotFound builds the initial record
ReadFile(c, ret) ==
    IF file = <<>>
    THEN [c EXCEPT !.ret = ret, !.newStatus = InitialStatus(clock),
                   !.pc = "create"]
    ELSE AfterRead([c EXCEPT !.ret = ret], JSONparse(file[1]))

\* history of the records returned: the last two are kept
Returned(rec) == IF Len(reads) = 2 THEN <<reads[2], rec>> ELSE Append(reads, rec)

ReadsAfter(ret) == IF file = <<>> THEN reads ELSE Returned(JSONparse(file[1]))

Updated_stampsAll(c) ==
    [i \in DOMAIN c.currentStatus |-> <<c.currentStatus[i][1], FixedStamp>>]

\* status.write's argument, lines 195-198
Updated(c) == Spread(c.currentStatus, c.key, FixedStamp)

\* GET /api/status arrives and reads the file
GetStatus(r) ==
    /\ Arrive(r)
    /\ Respond(r, ReadFile(Fresh("status", "GET", ""), "status"))
    /\ reads' = ReadsAfter("status")
    /\ UNCHANGED <<consumed, session, file, clock, issued>>

\* status.read, lines 67-69: the lazily created record is written and returned
StatusCreate(r) ==
    /\ ctx[r].pc = "create"
    /\ file' = <<JSONstringify(ctx[r].newStatus, 0)>>
    /\ Respond(r, AfterRead([ctx[r] EXCEPT !.created = TRUE],
                            CreatedRecord(ctx[r])))
    /\ reads' = <<CreatedRecord(ctx[r])>>
    /\ UNCHANGED <<consumed, served, session, clock, issued>>

\* any /api/status/:key request arrives (lines 171-177)
StatusKey(r) ==
    /\ Arrive(r)
    /\ \E method \in Methods, key \in Keys :
          LET c == Fresh("statusKey", method, key) IN
          Respond(r, IF method \notin {"POST", "GET"}
                     THEN Return([c EXCEPT !.status = 405])
                     ELSE GetNameEntry(c))
    /\ UNCHANGED <<consumed, session, file, clock, issued, reads>>

\* /api/status/:key, line 187: status.read for the update
StatusRead(r) ==
    /\ ctx[r].pc = "read"
    /\ Respond(r, ReadFile(ctx[r], "update"))
    /\ reads' = ReadsAfter("update")
    /\ UNCHANGED <<consumed, served, session, file, clock, issued>>

\* /api/status/:key, lines 195-202: status.write of the whole record
StatusWrite(r) ==
    /\ ctx[r].pc = "write"
    /\ file' = <<JSONstringify(Updated(ctx[r]), 2)>>
    /\ reads' = <<>>
    /\ LET c == [ctx[r] EXCEPT !.written = TRUE,
                                !.before = ctx[r].currentStatus] IN
       Respond(r, IF c.method = "GET" THEN Redirect(c, "/")
                  ELSE [c EXCEPT !.pc = "reread"])
    /\ UNCHANGED <<consumed, served, session, clock, issued>>

\* /api/status/:key, line 204: POST answers with status.read()
StatusReread(r) ==
    /\ ctx[r].pc = "reread"
    /\ Respond(r, ReadFile(ctx[r], "post"))
    /\ reads' = ReadsAfter("post")
    /\ UNCHANGED <<consumed, served, session, file, clock, issued>>

\* time passes
Tick ==
    /\ clock < MaxClock
    /\ clock' = clock + 1
    /\ UNCHANGED <<consumed, served, ctx, jar, session, file, issued, reads,
                   loggedOut>>

Next ==
    \/ \E r \in Req :
          \/ Login(r) \/ Logout(r) \/ Callback(r) \/ Exchange(r)
          \/ GetMe(r) \/ Verify1(r) \/ Refresh(r) \/ Verify2(r)
          \/ GetStatus(r) \/ StatusKey(r) \/ StatusRead(r) \/ StatusCreate(r)
          \/ StatusWrite(r) \/ StatusReread(r)
    \/ Tick

Spec == Init /\ [][Next]_vars

\* a browser that sends only the oauth requests and /api/me: these handlers
\* neither read the clock nor touch the status file
NextAuth ==
    \E r \in Req :
        \/ Login(r) \/ Logout(r) \/ Callback(r) \/ Exchange(r)
        \/ GetMe(r) \/ Verify1(r) \/ Refresh(r) \/ Verify2(r)

SpecAuth == Init /\ [][NextAuth]_vars

\* ================================================================== claims
Lookup(obj, k) == LET i == CHOOSE j \in DOMAIN obj : obj[j][1] = k IN obj[i][2]

Done(r) == ctx[r].pc = "done"

\* an update request that was accepted and has written and answered
AcceptedUpdate(r) == Done(r) /\ ctx[r].route = "statusKey" /\ ctx[r].written

\* a request on which getName ran with a parsed credential bundle
HasCredential(r) == ctx[r].route \in {"me", "statusKey"} /\ ctx[r].cookie >= 1

\* C1: once accepted updates of distinct keys have completed, the persisted
\* record holds every value they wrote: no update is lost.
C1_NoLostUpdate ==
    \A r1, r2 \in Req :
        (r1 # r2 /\ AcceptedUpdate(r1) /\ AcceptedUpdate(r2)
            /\ ctx[r1].key # ctx[r2].key)
        => /\ file # <<>>
           /\ Lookup(JSONparse(file[1]), ctx[r1].key) = FixedStamp
           /\ Lookup(JSONparse(file[1]), ctx[r2].key) = FixedStamp

\* C2: one getName call makes at most one refresh attempt and at most two
\* verifier calls; when every verifier call it made answered invalid, it ends
\* reporting 401 "invalid session", whatever the refresh outcome.
C2_SingleRetryBound ==
    \A r \in Req :
        /\ ctx[r].nRefresh <= 1
        /\ ctx[r].nVerify <= 2
        /\ (Done(r) /\ HasCredential(r) /\ ctx[r].v1 = "invalid"
                /\ ctx[r].v2 \notin {"valid", "throws"})
           => /\ ctx[r].nRefresh = 1
              /\ ctx[r].nVerify = 2
              /\ ctx[r].me = "false"
              /\ ctx[r].authStatus = 401
              /\ ctx[r].authMessage = "invalid session"

C2_Witness ==
    \E r \in Req :
        /\ Done(r) /\ HasCredential(r)
        /\ ctx[r].v1 = "invalid" /\ ctx[r].v2 = "invalid"
        /\ ctx[r].refreshed = "ok"
        /\ ctx[r].authMessage = "invalid session"

\* C3: first verifier call invalid, refresh succeeds, retried call valid:
\* getName returns the identity and /api/me answers 200 with the name.
C3_RefreshedRetryResolves ==
    \A r \in Req :
        (Done(r) /\ ctx[r].route = "me" /\ ctx[r].v1 = "invalid"
            /\ ctx[r].refreshed = "ok" /\ ctx[r].v2 = "valid")
        => /\ ctx[r].me = "me"
           /\ FinalStatus(ctx[r]) = 200
           /\ ctx[r].body = Message("me")

\* C4: every GET /api/me ends either 200 with the identity or 401 with
\* "not logged in" or "invalid session"; "not logged in" exactly when the
\* request carried no credential cookie; getName never returns false without
\* having set the 401 and one of the two messages.
C4_MeOutcomes ==
    \A r \in Req :
        (Done(r) /\ ctx[r].route = "me")
        => /\ \/ /\ FinalStatus(ctx[r]) = 200
                 /\ ctx[r].body = Message("me")
                 /\ ctx[r].me = "me"
              \/ /\ FinalStatus(ctx[r]) = 401
                 /\ ctx[r].body \in {Message("not logged in"),
                                     Message("invalid session")}
           /\ (ctx[r].body = Message("not logged in"))
                 <=> (ctx[r].cookie = NoCookie)
           /\ (ctx[r].me = "false")
                 => /\ ctx[r].authStatus = 401
                    /\ ctx[r].authMessage \in {"not logged in", "invalid session"}

\* C5: getName on a request without the credential cookie calls neither the
\* verifier nor the refresh and has already reported 401 "not logged in".
C5_NoCredentialShortCircuit ==
    \A r \in Req :
        (ctx[r].route \in {"me", "statusKey"} /\ ctx[r].method \in {"GET", "POST"}
            /\ ctx[r].cookie = NoCookie)
        => /\ ctx[r].nVerify = 0 /\ ctx[r].nRefresh = 0
           /\ ctx[r].v1 = "-" /\ ctx[r].refreshed = "-" /\ ctx[r].v2 = "-"
           /\ Done(r)
           /\ ctx[r].me = "false"
           /\ ctx[r].authStatus = 401
           /\ ctx[r].authMessage = "not logged in"
           /\ ctx[r].route = "me"
                 => /\ FinalStatus(ctx[r]) = 401
                    /\ ctx[r].body = Message("not logged in")

C5_Witness ==
    \E r \in Req :
        /\ Done(r) /\ ctx[r].route = "me" /\ ctx[r].cookie = NoCookie
        /\ ctx[r].authMessage = "not logged in"

\* C6: a callback that finds no code verifier in the session throws: no token
\* exchange, no credential cookie, no redirect to the application root.
C6_CallbackWithoutVerifierFails ==
    \A r \in Req :
        (ctx[r].route = "callback" /\ ctx[r].codeVerifier = Undefined)
        => /\ Done(r)
           /\ ctx[r].thrown
           /\ FinalStatus(ctx[r]) = 500
           /\ ~ctx[r].exchanged
           /\ ctx[r].setCookie = Keep
           /\ ctx[r].location # "/"

C6_Witness ==
    \E r \in Req :
        /\ Done(r) /\ ctx[r].route = "callback"
        /\ ctx[r].codeVerifier = Undefined /\ ctx[r].thrown

\* C7: once a callback has taken the flashed verifier, the session holds none
\* until the next login, and a callback arriving meanwhile throws without
\* exchanging a code or setting the credential cookie.
C7_VerifierReadOnce ==
    /\ consumed => session = Undefined
    /\ \A r \in Req :
          (ctx[r].route = "callback" /\ ctx[r].replay)
          => /\ Done(r)
             /\ ctx[r].thrown
             /\ ctx[r].codeVerifier = Undefined
             /\ ~ctx[r].exchanged
             /\ ctx[r].setCookie = Keep
             /\ ctx[r].location # "/"

C7_Witness ==
    /\ consumed
    /\ \E r \in Req :
          Done(r) /\ ctx[r].route = "callback" /\ ctx[r].replay /\ ctx[r].thrown

\* C8: an update by a caller whose identity resolved, with a key that is not
\* in the persisted record's key set, ends 400 "invalid key" and writes
\* nothing.
C8_InvalidKeyRejected ==
    \A r \in Req :
        (ctx[r].route = "statusKey" /\ ctx[r].me = "me"
            /\ ctx[r].pc \notin {"read", "create"}
            /\ file # <<>> /\ ctx[r].key \notin ObjectKeys(JSONparse(file[1])))
        => /\ Done(r)
           /\ ctx[r].status = 400
           /\ ctx[r].body = Message("invalid key")
           /\ ~ctx[r].written

C8_Witness ==
    \E r \in Req :
        /\ Done(r) /\ ctx[r].route = "statusKey" /\ ctx[r].me = "me"
        /\ ctx[r].key = "bogus" /\ ctx[r].status = 400

C10_FirstReadersAgree ==
    \A r1, r2 \in Req :
        (Done(r1) /\ ctx[r1].route = "status" /\ ctx[r1].created
            /\ Done(r2) /\ ctx[r2].route = "status" /\ ctx[r2].created)
        => /\ ctx[r1].body = ctx[r2].body
           /\ (file # <<>> /\ file[1].indent = 0)
                 => ctx[r1].body.rec = JSONparse(file[1])

\* C11: an accepted POST update that ran with no other request in flight
\* answers with the record it read before the write, only its key replaced
\* by the written stamp; every other key keeps its value.
C11_UpdateFrame ==
    \A r \in Req :
        (AcceptedUpdate(r) /\ ctx[r].method = "POST" /\ ctx[r].solo)
        => /\ FinalStatus(ctx[r]) = 200
           /\ ctx[r].body.kind = "status"
           /\ DOMAIN ctx[r].body.rec = DOMAIN ctx[r].before
           /\ \A i \in DOMAIN ctx[r].before :
                 ctx[r].body.rec[i] =
                    IF ctx[r].before[i][1] = ctx[r].key
                    THEN <<ctx[r].key, FixedStamp>>
                    ELSE ctx[r].before[i]
           /\ Lookup(ctx[r].body.rec, ctx[r].key) = FixedStamp

C11_Witness ==
    \E r \in Req :
        /\ AcceptedUpdate(r) /\ ctx[r].method = "POST" /\ ctx[r].solo
        /\ ctx[r].key = "last_emptied"
        /\ ctx[r].body = Json(<<<<"last_emptied", FixedStamp>>,
                                <<"last_cleaned", 1>>>>)

StatusKeyRequest(r) == ctx[r].route = "statusKey" /\ ctx[r].pc # "idle"

\* C12 (as stated): a POST /api/status/:key whose identity does not resolve
\* answers with no body.
C12_PostAuthFailureNoBody ==
    \A r \in Req :
        (Done(r) /\ StatusKeyRequest(r) /\ ctx[r].method = "POST"
            /\ ctx[r].me = "false")
        => ctx[r].body = NoBody

\* C12 (amended): on a POST /api/status/:key whose identity does not resolve
\* the handler returns without adding anything to the response, which is the
\* one getName left: 401 with {message: "not logged in"} when there is no
\* credential, 401 with {message: "invalid session"} when getName reported
\* one, and no redirect and no status record in any case.
C12_PostAuthFailureKeepsGetNameResponse ==
    \A r \in Req :
        (Done(r) /\ StatusKeyRequest(r) /\ ctx[r].method = "POST"
            /\ ctx[r].me = "false")
        => /\ ctx[r].location = ""
           /\ ctx[r].status = ctx[r].authStatus
           /\ ctx[r].body = IF ctx[r].authMessage = "" THEN NoBody
                            ELSE Message(ctx[r].authMessage)
           /\ ctx[r].cookie = NoCookie
              => /\ FinalStatus(ctx[r]) = 401
                 /\ ctx[r].body = Message("not logged in")
           /\ ctx[r].v2 = "invalid"
              => /\ FinalStatus(ctx[r]) = 401
                 /\ ctx[r].body = Message("invalid session")

C12_Witness ==
    \E r \in Req :
        /\ Done(r) /\ StatusKeyRequest(r) /\ ctx[r].method = "POST"
        /\ ctx[r].me = "false"
        /\ FinalStatus(ctx[r]) = 401
        /\ ctx[r].body = Message("not logged in")

\* C13: a GET or POST /api/status/:key request whose identity has not
\* resolved neither creates nor writes the status file, whatever its key;
\* a request that wrote the file had a resolved identity.
C13_UnresolvedLeavesStore ==
    \A r \in Req :
        /\ (StatusKeyRequest(r) /\ ctx[r].me # "me")
           => ~ctx[r].created /\ ~ctx[r].written
        /\ (StatusKeyRequest(r) /\ ctx[r].me = "false") => Done(r)
        /\ ctx[r].written => ctx[r].me = "me"

C13_Witness ==
    \E r \in Req :
        /\ Done(r) /\ StatusKeyRequest(r) /\ ctx[r].method = "POST"
        /\ ctx[r].me = "false" /\ ctx[r].key = "last_cleaned"
        /\ served = 1 /\ file = <<>>

\* C14: first verifier call invalid and the refresh attempt failed: getName
\* reports 401 "invalid session" and returns no identity.
C14_FailedRefreshInvalidSession ==
    \A r \in Req :
        (Done(r) /\ HasCredential(r) /\ ctx[r].v1 = "invalid"
            /\ ctx[r].refreshed = "failed")
        => /\ ctx[r].me = "false"
           /\ ctx[r].authStatus = 401
           /\ ctx[r].authMessage = "invalid session"
           /\ FinalStatus(ctx[r]) = 401

\* C16: fetchRcApi yields valid for a 200 answer and invalid for every other
\* provider outcome, a network error included; no verifier call raises an
\* exception out of the request.
C16_VerifierNeverRaises ==
    \A r \in Req :
        /\ ctx[r].v1 \in {"-", "valid", "invalid"}
        /\ ctx[r].v2 \in {"-", "valid", "invalid"}
        /\ ctx[r].nVerify > 0 => ~ctx[r].thrown

\* C17: with a missing or malformed credential cookie cookies.getTokens
\* returns absent: the request does not crash and getName reports 401
\* "not logged in" without calling the provider.
C17_RetrieveFailsSoft ==
    \A r \in Req :
        (ctx[r].route = "me" /\ ctx[r].pc # "idle"
            /\ ctx[r].cookie \in {NoCookie, Malformed})
        => /\ Done(r) /\ ~ctx[r].thrown
           /\ ctx[r].nVerify = 0 /\ ctx[r].nRefresh = 0
           /\ ctx[r].me = "false"
           /\ ctx[r].authMessage = "not logged in"
           /\ FinalStatus(ctx[r]) = 401

\* C18: a failed cookies.refreshTokens call writes nothing: right after it,
\* and until the caller itself deletes the cookie, the response sets no
\* cookie and the bundle read again is the one the request came with.
C18_FailedRefreshWritesNothing ==
    \A r \in Req :
        /\ (ctx[r].pc = "verify2" /\ ctx[r].refreshed = "failed")
           => /\ ctx[r].setCookie = Keep
              /\ ctx[r].newTokens = ctx[r].cookie
        /\ (Done(r) /\ ctx[r].refreshed = "failed" /\ ctx[r].v2 # "invalid")
           => ctx[r].setCookie = Keep

C18_Witness ==
    \E r \in Req :
        /\ ctx[r].pc = "verify2" /\ ctx[r].refreshed = "failed"
        /\ ctx[r].nRefresh = 1 /\ jar = ctx[r].cookie

\* C20: first verifier call invalid, refresh succeeded, retried call invalid:
\* getName deletes the credential cookie and reports 401 "invalid session"
\* with no identity.
C20_SecondInvalidClearsCookie ==
    \A r \in Req :
        (Done(r) /\ HasCredential(r) /\ ctx[r].v1 = "invalid"
            /\ ctx[r].refreshed = "ok" /\ ctx[r].v2 = "invalid")
        => /\ ctx[r].setCookie = NoCookie
           /\ ctx[r].me = "false"
           /\ ctx[r].authStatus = 401
           /\ ctx[r].authMessage = "invalid session"
           /\ ctx[r].route = "me" => FinalStatus(ctx[r]) = 401

C20_Witness ==
    \E r \in Req :
        /\ Done(r) /\ ctx[r].route = "me"
        /\ ctx[r].v1 = "invalid" /\ ctx[r].refreshed = "ok"
        /\ ctx[r].v2 = "invalid"
        /\ ctx[r].setCookie = NoCookie /\ jar = NoCookie
        /\ FinalStatus(ctx[r]) = 401

\* C19: whenever the status file exists its members are exactly
\* last_emptied and last_cleaned, once each: no request adds or removes a key.
C19_KeySetClosed ==
    file # <<>>
    => /\ ObjectKeys(JSONparse(file[1])) = {"last_emptied", "last_cleaned"}
       /\ Len(JSONparse(file[1])) = 2

C19_Witness ==
    /\ file # <<>>
    /\ file[1].indent = 2
    /\ Lookup(JSONparse(file[1]), "last_cleaned") = FixedStamp
    /\ \E r \in Req : Done(r) /\ ctx[r].key = "bogus" /\ ctx[r].status = 400

\* C15 (as stated): after a logout, whatever the state it came from, the
\* browser holds no credential cookie until a new login and callback have
\* completed, so every getName in between reports "not logged in".
C15_LoggedOutUntilNewLogin ==
    /\ loggedOut # "no" => jar = NoCookie
    /\ \A r \in Req :
          (Done(r) /\ ctx[r].route = "logout")
          => ~ctx[r].thrown /\ ctx[r].setCookie = NoCookie

\* C15 (amended): logout, from any cookie and session state, never throws,
\* deletes the credential cookie and redirects to the root, and leaves no
\* session verifier until the next login; when no other request was in
\* flight at the logout, the browser holds no credential cookie until a new
\* login and callback have completed and no getName is left waiting for the
\* provider: one that arrives in between finds no cookie and reports 401
\* "not logged in" at once.
C15_LogoutClears ==
    /\ \A r \in Req :
          (Done(r) /\ ctx[r].route = "logout")
          => /\ ~ctx[r].thrown
             /\ ctx[r].setCookie = NoCookie
             /\ FinalStatus(ctx[r]) = 302
             /\ ctx[r].location = "/"
    /\ loggedOut \in {"quiet", "out"} => session = Undefined
    /\ loggedOut \in {"quiet", "quietLogin"}
       => /\ jar = NoCookie
          /\ \A r \in Req :
                ctx[r].route \in {"me", "statusKey"} => Free(r)

C15_Witness ==
    /\ loggedOut = "quiet"
    /\ \E r1, r2 \in Req :
          /\ Done(r1) /\ ctx[r1].route = "logout" /\ ctx[r1].cookie >= 1
          /\ Done(r2) /\ ctx[r2].route = "me" /\ ctx[r2].cookie = NoCookie
          /\ ctx[r2].authMessage = "not logged in"

====
